---- MODULE Spec2Model ----
(***************************************************************************)
(* Model of the quote editor of streamlit_app.py: the editor helper        *)
(* functions (init_editor_structure, reorder_row, convert_type,            *)
(* delete_row, spread_row, editor_to_flat_df), and the button handlers of  *)
(* the script that apply them to st.session_state.editor_df, the source    *)
(* table loads (PDF processing, manual upload) and the two comparison      *)
(* renderers (generate_html_table and the Excel sheet).                    *)
(*                                                                         *)
(* A DataFrame is a sequence of rows; a row is a function from column      *)
(* names to values.  The DataFrame index is the position (every stored     *)
(* frame has a RangeIndex: read_csv, reset_index(drop=True) and            *)
(* concat(ignore_index=True) all produce one), so Python position p is     *)
(* TLA+ position p + 1.                                                    *)
(***************************************************************************)
EXTENDS Integers, Sequences, FiniteSets, TLC

VARIABLES
    df,                 \* st.session_state.df: the flat table
    editor_df,          \* st.session_state.editor_df: the Row Store
    editor_initialized, \* st.session_state.editor_initialized
    uuidCount,          \* how many ids uuid.uuid4() has handed out so far
    ops,                \* how many runs (handlers, loads) have replaced the Row Store
    lastOp,             \* history: the handler that ran last, with its inputs
    prev,               \* history: editor_df as the last handler received it
    uploaded_file,      \* the table in the manual file uploader; <<>> when empty
    tax_percent,        \* the "Tax Percentage" number input
    html,               \* the tables generate_html_table rendered last
    workbook,           \* the sheet blocks "Generate Excel File" wrote last
    selected,           \* _id of the row in grid_response.selected_rows; "" for none
    pending_delete,     \* st.session_state.pending_delete; "" for None
    spread_mode,        \* st.session_state.spread_mode; "" for False
    spread_group        \* st.session_state._spread_group; "" while not set

vars == <<df, editor_df, editor_initialized, uuidCount, ops, lastOp, prev,
          uploaded_file, tax_percent, html, workbook,
          selected, pending_delete, spread_mode, spread_group>>

-----------------------------------------------------------------------------
(* Bounds of the model *)

MaxTableLen == 3    \* longest source table that is loaded
MaxIds == 4         \* ids handed out in one session (caps "Add Row")
MaxOps == 3         \* button handlers run on the Row Store in one session
MaxTargets == 2     \* entries picked in the spread multiselect

DefaultTax == 12    \* st.number_input("Tax Percentage", value=12.0)

-----------------------------------------------------------------------------
(* Columns and rows *)

EditorCols == {"_id", "_parentId", "_order", "_group"}

Row(type, supplier, brand, code, description, power, price) ==
    ("type" :> type) @@ ("supplier" :> supplier) @@ ("brand" :> brand) @@
    ("code" :> code) @@ ("description" :> description) @@
    ("Power Type" :> power) @@ ("price" :> price)

\* The three input rows of Scenario A, and an Item of another product.
SupplierAItem == Row("item", "SupplierA", "BrandX", "C1", "Unit", "PowerHigh", 100)
Accessory == Row("subitem", "SupplierA", "BrandX", "-", "Accessory", "-", 20)
SupplierBItem == Row("item", "SupplierB", "BrandX", "C1", "-", "PowerHigh", 90)
OtherItem == Row("item", "SupplierB", "BrandX", "C2", "Unit", "PowerHigh", 90)

ScenarioA == <<SupplierAItem, Accessory, SupplierBItem>>

RowPool == {SupplierAItem, Accessory, SupplierBItem, OtherItem}

\* Flat tables in the import format (its seven columns only).
SourceTables ==
    UNION {[1..n -> RowPool] : n \in 1..MaxTableLen}

\* The tables the editing sessions of the model are loaded with.
SessionTables ==
    { ScenarioA,
      <<SupplierAItem, OtherItem, SupplierBItem>>,
      <<SupplierAItem, Accessory, Accessory>>,
      <<Accessory, SupplierAItem>>,
      <<SupplierAItem, SupplierAItem>>,
      <<OtherItem>> }

\* str(uuid.uuid4())[:8]: the n-th id handed out (ids are taken to be fresh).
uuid4(n) == "u" \o ToString(n)

-----------------------------------------------------------------------------
(* DataFrame helpers *)

Range0(n) == [i \in 1..n |-> i - 1]            \* list(range(n))

Idx(d, row_id) == {i \in 1..Len(d) : d[i]["_id"] = row_id}   \* df.index[df["_id"] == row_id]

Min(S) == CHOOSE x \in S : \A y \in S : x <= y
Max(S) == CHOOSE x \in S : \A y \in S : x >= y

\* df["_order"] = list(range(len(df)))
Renumber(d) == [i \in 1..Len(d) |-> [d[i] EXCEPT !["_order"] = i - 1]]

\* df[col] = vals, only when the column is not there yet.
AddMissing(d, col, vals) ==
    [i \in 1..Len(d) |-> d[i] @@ (col :> vals[i])]

-----------------------------------------------------------------------------
(* The editor helper functions *)

init_editor_structure(d, n) ==
    LET ids == [i \in 1..Len(d) |-> uuid4(n + i)]
        none == [i \in 1..Len(d) |-> ""]
        grp == [i \in 1..Len(d) |-> d[i]["code"] \o "|" \o d[i]["Power Type"]]
    IN  AddMissing(AddMissing(AddMissing(AddMissing(d,
            "_id", ids), "_parentId", none), "_order", Range0(Len(d))), "_group", grp)

\* Faulty variant of reorder_row: the row is written over its neighbour's
\* place without the neighbour being written back (a lost half of the swap).
reorder_row_overwrite(d, row_id, direction) ==
    LET idx == Idx(d, row_id) IN
    IF idx = {} THEN d
    ELSE LET i == Min(idx)
             moved ==
                 IF direction = "up" /\ i > 1
                 THEN [d EXCEPT ![i - 1] = d[i]]
                 ELSE IF direction = "down" /\ i < Len(d)
                 THEN [d EXCEPT ![i + 1] = d[i]]
                 ELSE d
         IN  Renumber(moved)

reorder_row(d, row_id, direction) ==
    LET idx == Idx(d, row_id) IN
    IF idx = {} THEN d
    ELSE LET i == Min(idx)
             swapped ==
                 IF direction = "up" /\ i > 1
                 THEN [d EXCEPT ![i] = d[i - 1], ![i - 1] = d[i]]
                 ELSE IF direction = "down" /\ i < Len(d)
                 THEN [d EXCEPT ![i] = d[i + 1], ![i + 1] = d[i]]
                 ELSE d
         IN  Renumber(swapped)

convert_type(d, row_id) ==
    LET idx == Idx(d, row_id) IN
    IF idx = {} THEN d
    ELSE LET i == Min(idx) IN
         IF d[i]["type"] = "item"
         THEN [d EXCEPT ![i]["type"] = "subitem"]
         ELSE [d EXCEPT ![i]["type"] = "item"]

delete_row(d, row_id) ==
    LET Keep(r) == r["_id"] # row_id
    IN  Renumber(SelectSeq(d, Keep))

RECURSIVE spread_row_loop(_, _, _)
spread_row_loop(d, source_row, target_ids) ==
    IF target_ids = <<>> THEN d
    ELSE LET target_idx == Idx(d, Head(target_ids)) IN
         IF target_idx = {} THEN spread_row_loop(d, source_row, Tail(target_ids))
         ELSE LET t == Min(target_idx)
                  written == [col \in DOMAIN d[t] |->
                                 IF col \in {"_id", "_parentId", "_order"}
                                 THEN d[t][col] ELSE source_row[col]]
              IN  spread_row_loop([d EXCEPT ![t] = written], source_row,
                                  Tail(target_ids))

spread_row(d, source_id, target_ids) ==
    LET source_idx == Idx(d, source_id) IN
    IF source_idx = {} THEN d
    ELSE spread_row_loop(d, d[Min(source_idx)], target_ids)

\* Faulty variant of editor_to_flat_df: "_group" is missing from drop_cols.
editor_to_flat_df_keepsGroup(d) ==
    [i \in 1..Len(d) |->
        [col \in DOMAIN d[i] \ {"_id", "_parentId", "_order"} |-> d[i][col]]]

editor_to_flat_df(d) ==
    [i \in 1..Len(d) |-> [col \in DOMAIN d[i] \ EditorCols |-> d[i][col]]]

-----------------------------------------------------------------------------
(* What the script reads off the Row Store to build its widgets *)

Ids(d) == {d[i]["_id"] : i \in 1..Len(d)}

ItemIdx(d) == {i \in 1..Len(d) : d[i]["type"] = "item"}

\* The rows some group's grid shows, hence the rows a click can select.
Displayed(d) ==
    {i \in 1..Len(d) :
        \E g \in ItemIdx(d) :
            \/ d[i]["_group"] = d[g]["_group"]
            \/ \E k \in ItemIdx(d) : /\ d[k]["_group"] = d[g]["_group"]
                                     /\ d[i]["_parentId"] = d[k]["_id"]}

Selectable(d) == {d[i]["_id"] : i \in Displayed(d)}

Label(r) == <<r["supplier"], r["code"], r["description"]>>

\* dict(zip(all_items["label"], all_items["_id"])).values(): of the Items
\* that share a label, the last one is the one the option stands for.
OptionIds(d) ==
    {d[i]["_id"] : i \in {j \in ItemIdx(d) :
        \A k \in ItemIdx(d) : Label(d[k]) = Label(d[j]) => k <= j}}

RECURSIVE Ascending(_)
Ascending(S) == IF S = {} THEN <<>> ELSE <<Min(S)>> \o Ascending(S \ {Min(S)})

\* The lists the multiselect over the options returns: distinct options,
\* taken here in the order of the option list.
TargetLists(d) ==
    LET optionIdx == {i \in 1..Len(d) : d[i]["_id"] \in OptionIds(d)
                                         /\ d[i]["type"] = "item"}
    IN  {[k \in 1..Cardinality(P) |-> d[Ascending(P)[k]]["_id"]] :
            P \in {Q \in SUBSET optionIdx : Q # {} /\ Cardinality(Q) <= MaxTargets}}

-----------------------------------------------------------------------------
(* The comparison renderers.  Money is in hundredths where tax is applied: *)
(* x * (1 + tax_percent / 100) is modelled as x * (100 + tax_percent).     *)

\* The tax percentages entered in the model.
TaxValues == {0, 10, DefaultTax}

\* Series.unique() / drop_duplicates(): first occurrences, in order.
RECURSIVE unique(_)
unique(s) ==
    IF s = <<>> THEN <<>>
    ELSE LET u == unique(SubSeq(s, 1, Len(s) - 1))
         IN  IF \E k \in 1..Len(u) : u[k] = s[Len(s)] THEN u
             ELSE Append(u, s[Len(s)])

\* Series.sum() of the price column.
RECURSIVE price_sum(_)
price_sum(d) ==
    IF d = <<>> THEN 0 ELSE d[1]["price"] + price_sum(Tail(d))

main_items(d) ==
    LET Keep(r) == r["type"] = "item" /\ r["Power Type"] # ""
    IN  SelectSeq(d, Keep)

\* main_items[["code", "Power Type"]].drop_duplicates().values
group_keys(d) ==
    unique([i \in 1..Len(main_items(d)) |->
                <<main_items(d)[i]["code"], main_items(d)[i]["Power Type"]>>])

items_for_code(d, code, power_type) ==
    LET Keep(r) == /\ r["code"] = code
                   /\ r["Power Type"] = power_type \/ r["Power Type"] = ""
                   /\ r["type"] \in {"item", "subitem"}
    IN  SelectSeq(d, Keep)

suppliers(g) == unique([i \in 1..Len(g) |-> g[i]["supplier"]])

descriptions(g) == unique([i \in 1..Len(g) |-> g[i]["description"]])

\* price of the first row with this supplier and description, else 0
cell_price(g, s, desc) ==
    LET Match(r) == r["supplier"] = s /\ r["description"] = desc
        row == SelectSeq(g, Match)
    IN  IF row # <<>> THEN row[1]["price"] ELSE 0

\* totals[s] after the item rows of the table
RECURSIVE totals(_, _, _)
totals(g, s, descs) ==
    IF descs = <<>> THEN 0
    ELSE cell_price(g, s, descs[1]) + totals(g, s, Tail(descs))

SeqToSet(s) == {s[k] : k \in 1..Len(s)}

\* One <table> of the preview: header, item rows, tax row, total row.
html_table(d, code, power_type, tax) ==
    LET g == items_for_code(d, code, power_type) IN
    [code |-> code, power_type |-> power_type,
     suppliers |-> suppliers(g),
     descriptions |-> descriptions(g),
     price |-> [c \in SeqToSet(suppliers(g)) \X SeqToSet(descriptions(g)) |->
                    cell_price(g, c[1], c[2])],
     tax |-> tax,
     total |-> [s \in SeqToSet(suppliers(g)) |->
                    totals(g, s, descriptions(g)) * (100 + tax)]]

generate_html_table(d, tax) ==
    [k \in 1..Len(group_keys(d)) |->
        html_table(d, group_keys(d)[k][1], group_keys(d)[k][2], tax)]

\* The winner loop of the workbook: a strictly lower total replaces the
\* winner so far; found is FALSE while min_total is still float('inf').
RECURSIVE winner_loop(_, _, _, _, _, _)
winner_loop(g, sups, tax, found, min_total, winner_supplier) ==
    IF sups = <<>> THEN winner_supplier
    ELSE LET Mine(r) == r["supplier"] = sups[1]
             total == price_sum(SelectSeq(g, Mine)) * (100 + tax)
         IN  IF ~found \/ total < min_total
             THEN winner_loop(g, Tail(sups), tax, TRUE, total, sups[1])
             ELSE winner_loop(g, Tail(sups), tax, found, min_total, winner_supplier)

RECURSIVE cell_sum(_, _, _)
cell_sum(cells, s, descs) ==
    IF descs = <<>> THEN 0
    ELSE cells[<<s, descs[1]>>] + cell_sum(cells, s, Tail(descs))

\* One option block of the sheet, with the values its formulas evaluate to:
\* item cell = QTY * price with QTY 1, Total Before Tax = SUM of the item
\* cells, Tax = Total Before Tax * tax_rate, Total = Total Before Tax + Tax.
excel_block(d, code, power_type, tax) ==
    LET g == items_for_code(d, code, power_type)
        sups == SeqToSet(suppliers(g))
        cells == [c \in sups \X SeqToSet(descriptions(g)) |->
                      1 * cell_price(g, c[1], c[2])]
        before_tax == [s \in sups |-> cell_sum(cells, s, descriptions(g))]
        tax_cell == [s \in sups |-> before_tax[s] * tax]
    IN  [code |-> code, power_type |-> power_type,
         suppliers |-> suppliers(g),
         descriptions |-> descriptions(g),
         price |-> cells,
         total_before_tax |-> before_tax,
         tax |-> tax_cell,
         total |-> [s \in sups |-> 100 * before_tax[s] + tax_cell[s]],
         winner_supplier |-> winner_loop(g, suppliers(g), tax, FALSE, 0, "")]

generate_excel(d, tax) ==
    [k \in 1..Len(group_keys(d)) |->
        excel_block(d, group_keys(d)[k][1], group_keys(d)[k][2], tax)]

-----------------------------------------------------------------------------
(* The session: one action per script run that a user action triggers,     *)
(* together with the rerun that st.rerun() starts                          *)

\* Session state defaults, with no file in the manual uploader.
Fresh ==
    /\ editor_df = <<>>
    /\ editor_initialized = FALSE
    /\ uuidCount = 0
    /\ ops = 0
    /\ lastOp = [op |-> "load"]
    /\ prev = <<>>
    /\ uploaded_file = <<>>
    /\ html = <<>>
    /\ workbook = <<>>
    /\ selected = ""
    /\ pending_delete = ""
    /\ spread_mode = ""
    /\ spread_group = ""

Loaded(tables) ==
    /\ df \in tables
    /\ tax_percent = DefaultTax
    /\ Fresh

Init == Loaded(SessionTables)

\* The run ends by flattening the store into session_state.df.
Sync(e) == df' = editor_to_flat_df(e)

\* The manual-upload block runs in every script run while the uploader holds
\* a file: it reloads the file and resets the editor, which is then rebuilt.
\* Seen is the store (edf) a button handler of such a run works on.
Seen ==
    IF uploaded_file = <<>> THEN editor_df
    ELSE init_editor_structure(uploaded_file, uuidCount)

SeenCount ==
    IF uploaded_file = <<>> THEN uuidCount ELSE uuidCount + Len(uploaded_file)

\* A value of pending_delete or spread_mode after the manual-upload block of
\* a run: the block resets both while the uploader holds a file.
AfterUploadBlock(v) == IF uploaded_file = <<>> THEN v ELSE ""

\* What the grid reports as selected once it shows the store d: the row
\* selected before while d has it; when d has lost it the component may
\* still report it or report nothing.
SelAfter(d) == IF selected \in Ids(d) THEN {selected} ELSE {selected, ""}

\* A run in which no button writes pending_delete or spread_mode.
KeepUi ==
    /\ pending_delete' = AfterUploadBlock(pending_delete)
    /\ spread_mode' = AfterUploadBlock(spread_mode)
    /\ selected' \in SelAfter(editor_df')
    /\ UNCHANGED spread_group

\* The rest of a script run after session_state.editor_df holds r, n ids
\* having been handed out and the tax input holding tax: the rerun that
\* st.rerun() starts, then the sync to the flat table and the preview.
Run(r, n, tax) ==
    /\ editor_df' = IF uploaded_file = <<>> THEN r
                    ELSE init_editor_structure(uploaded_file, n)
    /\ uuidCount' = IF uploaded_file = <<>> THEN n ELSE n + Len(uploaded_file)
    /\ editor_initialized' = TRUE
    /\ Sync(editor_df')
    /\ tax_percent' = tax
    /\ html' = generate_html_table(df', tax)
    /\ UNCHANGED uploaded_file

Rerun(r, n) ==
    /\ Run(r, n, tax_percent)
    /\ KeepUi
    /\ UNCHANGED workbook

InitEditor ==
    LET src == IF uploaded_file = <<>> THEN df ELSE uploaded_file IN
    /\ ~editor_initialized
    /\ editor_df' = init_editor_structure(src, uuidCount)
    /\ editor_initialized' = TRUE
    /\ uuidCount' = uuidCount + Len(src)
    /\ Sync(editor_df')
    /\ html' = generate_html_table(df', tax_percent)
    /\ lastOp' = [op |-> "init", src |-> src]
    /\ prev' = <<>>
    /\ KeepUi
    /\ UNCHANGED <<ops, uploaded_file, tax_percent, workbook>>

Reorder ==
    /\ editor_initialized
    /\ ops < MaxOps
    /\ \E sel_id \in Selectable(editor_df), direction \in {"up", "down"} :
        /\ Rerun(reorder_row(Seen, sel_id, direction), SeenCount)
        /\ lastOp' = [op |-> "reorder", id |-> sel_id, direction |-> direction]
    /\ prev' = Seen
    /\ ops' = ops + 1

Convert ==
    /\ editor_initialized
    /\ ops < MaxOps
    /\ \E sel_id \in Selectable(editor_df) :
        /\ Rerun(convert_type(Seen, sel_id), SeenCount)
        /\ lastOp' = [op |-> "convert", id |-> sel_id]
    /\ prev' = Seen
    /\ ops' = ops + 1

ConfirmDelete ==
    /\ editor_initialized
    /\ ops < MaxOps
    /\ \E sel_id \in Selectable(editor_df) \cap Ids(Seen) :
        /\ Rerun(delete_row(Seen, sel_id), SeenCount)
        /\ lastOp' = [op |-> "delete", id |-> sel_id]
    /\ prev' = Seen
    /\ ops' = ops + 1

SpreadNow ==
    /\ editor_initialized
    /\ ops < MaxOps
    /\ \E source_id \in Selectable(editor_df), target_ids \in TargetLists(Seen) :
        /\ Rerun(spread_row(Seen, source_id, target_ids), SeenCount)
        /\ lastOp' = [op |-> "spread", id |-> source_id, targets |-> target_ids]
    /\ prev' = Seen
    /\ ops' = ops + 1

AddRow ==
    /\ editor_initialized
    /\ ops < MaxOps
    /\ SeenCount < MaxIds
    /\ \E f \in RowPool :
       \E picked \in IF f["type"] = "subitem" /\ OptionIds(Seen) # {}
                     THEN OptionIds(Seen) ELSE {""} :
        LET edf == Seen
            new_id == uuid4(SeenCount + 1)
            attach == f["type"] = "subitem" /\ picked # ""
            existing == {i \in 1..Len(edf) : edf[i]["_parentId"] = picked}
            new_order == IF attach /\ existing # {}
                         THEN Max({edf[i]["_order"] : i \in existing}) + 1
                         ELSE 0
            parent_id == IF attach THEN picked ELSE ""
            new_row == f @@ ("_id" :> new_id) @@ ("_parentId" :> parent_id) @@
                       ("_order" :> new_order) @@
                       ("_group" :> f["code"] \o "|" \o f["Power Type"])
        IN  /\ Rerun(Append(edf, new_row), SeenCount + 1)
            /\ lastOp' = [op |-> "add", id |-> new_id, type |-> f["type"],
                          parent |-> picked]
    /\ prev' = Seen
    /\ ops' = ops + 1

Next ==
    \/ InitEditor
    \/ Reorder
    \/ Convert
    \/ ConfirmDelete
    \/ SpreadNow
    \/ AddRow

Spec == Init /\ [][Next]_vars

\* Loading any table of the import format and opening the editor on it.
InitRT == Loaded(SourceTables)

RoundTripSpec == InitRT /\ [][InitEditor]_vars

\* A change of the "Tax Percentage" input: the script runs with the new value.
SetTax ==
    /\ editor_initialized
    /\ \E tax \in TaxValues \ {tax_percent} :
        /\ Run(Seen, SeenCount, tax)
        /\ lastOp' = [op |-> "tax", tax |-> tax]
    /\ prev' = Seen
    /\ KeepUi
    /\ UNCHANGED <<ops, workbook>>

\* "Generate Excel File": the run renders the preview, then writes the sheet.
GenerateExcel ==
    /\ editor_initialized
    /\ Run(Seen, SeenCount, tax_percent)
    /\ workbook' = generate_excel(df', tax_percent)
    /\ lastOp' = [op |-> "excel", tax |-> tax_percent]
    /\ prev' = Seen
    /\ KeepUi
    /\ UNCHANGED ops

\* Rendering any table of the import format at any of the tax values.
RenderSpec == InitRT /\ [][InitEditor \/ SetTax \/ GenerateExcel]_vars

-----------------------------------------------------------------------------
(* Vocabulary of the properties *)

RowOf(d, row_id) == d[Min(Idx(d, row_id))]

ChildrenOf(d, row_id) == {d[i]["_id"] : i \in {j \in 1..Len(d) : d[j]["_parentId"] = row_id}}

ProductKey(r) == <<r["code"], r["Power Type"]>>

\* The fields of a row that the properties name (all but the derived _group).
NamedCols ==
    {"_id", "_parentId", "_order", "type", "supplier", "brand", "code",
     "description", "Power Type", "price"}

SameFields(r, q, cols) == \A col \in cols : r[col] = q[col]

\* (max existing child _order of parent) + 1, or 0 without children.
NextChildOrder(d, parent) ==
    LET kids == {i \in 1..Len(d) : d[i]["_parentId"] = parent}
    IN  IF kids = {} THEN 0 ELSE Max({d[i]["_order"] : i \in kids}) + 1

-----------------------------------------------------------------------------
(* C1: in every reachable Row Store, every non-empty _parentId is the _id  *)
(* of a row that is in the store and whose type is "item".                 *)
C1_NoDanglingParent ==
    \A i \in 1..Len(editor_df) :
        editor_df[i]["_parentId"] # "" =>
            \E j \in 1..Len(editor_df) :
                /\ editor_df[j]["_id"] = editor_df[i]["_parentId"]
                /\ editor_df[j]["type"] = "item"

(* C2: in every reachable Row Store the _id values of the rows are         *)
(* pairwise distinct.                                                      *)
C2_UniqueIds ==
    \A i, j \in 1..Len(editor_df) :
        i # j => editor_df[i]["_id"] # editor_df[j]["_id"]

\* A store that holds a row made by "Add Row", after a reorder that moved rows.
C2_Witness ==
    /\ lastOp.op = "reorder"
    /\ ops >= 2
    /\ Len(editor_df) >= 3
    /\ editor_df # prev
    /\ \E i \in 1..Len(editor_df) : editor_df[i]["_parentId"] # ""

(* C3: delete_row(id) on an Item removes that row and exactly the rows     *)
(* whose _parentId is id, on a Subitem only that row, and leaves every     *)
(* other row unchanged in every field, _order included; deleting the       *)
(* SupplierA item of Scenario A leaves just the SupplierB item.            *)
C3_DeleteCascades ==
    lastOp.op = "delete" =>
        LET target == RowOf(prev, lastOp.id)
            removed == IF target["type"] = "item"
                       THEN {lastOp.id} \cup ChildrenOf(prev, lastOp.id)
                       ELSE {lastOp.id}
            Stays(r) == r["_id"] \notin removed
        IN  /\ editor_df = SelectSeq(prev, Stays)
            /\ (prev = init_editor_structure(ScenarioA, 0) /\ lastOp.id = uuid4(1)
                    => df = <<SupplierBItem>>)

(* C4: spread_row(source_id, target_ids) with an existing source row and   *)
(* existing target Items adds exactly len(target_ids) new rows; each has a *)
(* fresh _id, type "subitem", the respective target as _parentId, the next *)
(* child _order of that target, the target's supplier, and every other     *)
(* data field copied from the source row.                                  *)
C4_SpreadAddsSubitems ==
    lastOp.op = "spread" =>
        LET source == RowOf(prev, lastOp.id)
            fresh == {i \in 1..Len(editor_df) : editor_df[i]["_id"] \notin Ids(prev)}
        IN  /\ Len(editor_df) = Len(prev) + Len(lastOp.targets)
            /\ Cardinality(fresh) = Len(lastOp.targets)
            /\ \A k \in 1..Len(lastOp.targets) :
                   \E i \in fresh :
                       /\ editor_df[i]["type"] = "subitem"
                       /\ editor_df[i]["_parentId"] = lastOp.targets[k]
                       /\ editor_df[i]["_order"] = NextChildOrder(prev, lastOp.targets[k])
                       /\ editor_df[i]["supplier"] =
                              RowOf(prev, lastOp.targets[k])["supplier"]
                       /\ SameFields(editor_df[i], source,
                              {"brand", "code", "description", "Power Type", "price"})

(* C5: spread_row leaves every row that existed before the call unchanged  *)
(* in every field (supplier, brand, code, description, Power Type, price,  *)
(* type, _parentId, _order): the source row and each target row too.       *)
C5_SpreadKeepsOriginals ==
    lastOp.op = "spread" =>
        \A i \in 1..Len(prev) :
            /\ prev[i]["_id"] \in Ids(editor_df)
            /\ SameFields(RowOf(editor_df, prev[i]["_id"]), prev[i], NamedCols)

\* Siblings of a row: the Items of its (code, Power Type), or the Subitems
\* of its _parentId.
Siblings(d, row_id) ==
    LET r == RowOf(d, row_id)
    IN  {d[i]["_id"] : i \in {j \in 1..Len(d) :
            /\ d[j]["type"] = r["type"]
            /\ IF r["type"] = "item"
               THEN ProductKey(d[j]) = ProductKey(r)
               ELSE d[j]["_parentId"] = r["_parentId"]}}

Before(d, row_id) ==
    {s \in Siblings(d, row_id) : RowOf(d, s)["_order"] < RowOf(d, row_id)["_order"]}

After(d, row_id) ==
    {s \in Siblings(d, row_id) : RowOf(d, s)["_order"] > RowOf(d, row_id)["_order"]}

FirstSibling(d, row_id) == After(d, row_id) = Siblings(d, row_id) \ {row_id}
LastSibling(d, row_id) == Before(d, row_id) = Siblings(d, row_id) \ {row_id}

\* The siblings next to a row in the requested direction of the sibling order.
Neighbours(d, row_id, direction) ==
    IF direction = "up"
    THEN {s \in Before(d, row_id) :
            \A t \in Before(d, row_id) : RowOf(d, t)["_order"] <= RowOf(d, s)["_order"]}
    ELSE {s \in After(d, row_id) :
            \A t \in After(d, row_id) : RowOf(d, t)["_order"] >= RowOf(d, s)["_order"]}

(* C6: reorder_row(id, "up") on the first of its siblings and              *)
(* reorder_row(id, "down") on the last of its siblings change no row and   *)
(* no _order value.                                                        *)
C6_ReorderAtEndIsNoOp ==
    /\ lastOp.op = "reorder"
    /\ \/ lastOp.direction = "up" /\ FirstSibling(prev, lastOp.id)
       \/ lastOp.direction = "down" /\ LastSibling(prev, lastOp.id)
    => editor_df = prev

(* C7: reorder_row(id, direction) on a row with a neighbouring sibling in  *)
(* that direction exchanges the _order values of that row and that         *)
(* sibling, and changes no row outside the pair.                           *)
C7_ReorderSwapsWithSibling ==
    /\ lastOp.op = "reorder"
    /\ Cardinality(Neighbours(prev, lastOp.id, lastOp.direction)) = 1
    => LET nb == CHOOSE s \in Neighbours(prev, lastOp.id, lastOp.direction) : TRUE
       IN  /\ Len(editor_df) = Len(prev)
           /\ Ids(editor_df) = Ids(prev)
           /\ RowOf(editor_df, lastOp.id)["_order"] = RowOf(prev, nb)["_order"]
           /\ RowOf(editor_df, nb)["_order"] = RowOf(prev, lastOp.id)["_order"]
           /\ \A i \in 1..Len(prev) :
                  prev[i]["_id"] \notin {lastOp.id, nb} =>
                      SameFields(RowOf(editor_df, prev[i]["_id"]), prev[i], NamedCols)

(* C8: for every flat table X of "item"/"subitem" rows,                    *)
(* editor_to_flat_df(init_editor_structure(X)) has the rows of X (here: in *)
(* the same order) and none of the editor-only columns, and building and   *)
(* flattening that result again returns the same table.                    *)
C8_RoundTrip ==
    lastOp.op = "init" =>
        /\ df = lastOp.src
        /\ \A i \in 1..Len(df) : DOMAIN df[i] \cap EditorCols = {}
        /\ editor_to_flat_df(init_editor_structure(df, uuidCount)) = df

\* The editor was opened on a three-row table that starts with a Subitem.
C8_Witness ==
    /\ lastOp.op = "init"
    /\ Len(lastOp.src) = 3
    /\ lastOp.src[1]["type"] = "subitem"
    /\ Len(editor_df) = 3
    /\ df = editor_to_flat_df(editor_df)

(* C9: convert_type(id) on an Item with children, when another Item of the *)
(* same (code, Power Type) exists: every former child becomes an Item with *)
(* empty _parentId and _order 0, and id becomes a Subitem of the first     *)
(* other Item of its product key, with the next child _order of that Item. *)
C9_ConvertItemWithChildren ==
    LET id == lastOp.id
        others == {i \in 1..Len(prev) :
                      /\ prev[i]["type"] = "item"
                      /\ prev[i]["_id"] # id
                      /\ ProductKey(prev[i]) = ProductKey(RowOf(prev, id))}
    IN  /\ lastOp.op = "convert"
        /\ RowOf(prev, id)["type"] = "item"
        /\ ChildrenOf(prev, id) # {}
        /\ others # {}
        => LET parent == prev[Min(others)]["_id"]
               now == RowOf(editor_df, id)
           IN  /\ \A c \in ChildrenOf(prev, id) :
                      /\ RowOf(editor_df, c)["type"] = "item"
                      /\ RowOf(editor_df, c)["_parentId"] = ""
                      /\ RowOf(editor_df, c)["_order"] = 0
               /\ now["type"] = "subitem"
               /\ now["_parentId"] = parent
               /\ now["_order"] = NextChildOrder(prev, parent)

(* C10: convert_type(id) on an Item when no other Item of the store shares *)
(* its (code, Power Type) leaves the row an Item: it is never left a       *)
(* Subitem without a parent.                                               *)
C10_ConvertWithoutTargetIsNoOp ==
    /\ lastOp.op = "convert"
    /\ RowOf(prev, lastOp.id)["type"] = "item"
    /\ \A i \in 1..Len(prev) :
           prev[i]["type"] = "item" /\ prev[i]["_id"] # lastOp.id
               => ProductKey(prev[i]) # ProductKey(RowOf(prev, lastOp.id))
    => RowOf(editor_df, lastOp.id)["type"] = "item"

-----------------------------------------------------------------------------
(* The helper functions called directly, on a store the session has        *)
(* reached, with an id that no row of the store carries                    *)

MissingId == "u0"     \* uuid4 hands out u1, u2, ...

CallWithMissingId ==
    /\ editor_initialized
    /\ \E fn \in {"reorder_up", "reorder_down", "convert_type", "delete_row"} :
        lastOp' = [op |-> "call", fn |-> fn, id |-> MissingId,
                   result |->
                       CASE fn = "reorder_up" -> reorder_row(editor_df, MissingId, "up")
                         [] fn = "reorder_down" -> reorder_row(editor_df, MissingId, "down")
                         [] fn = "convert_type" -> convert_type(editor_df, MissingId)
                         [] fn = "delete_row" -> delete_row(editor_df, MissingId)]
    /\ UNCHANGED <<df, editor_df, editor_initialized, uuidCount, ops, prev,
                   uploaded_file, tax_percent, html, workbook,
                   selected, pending_delete, spread_mode, spread_group>>

SpreadWithMissingId ==
    /\ editor_initialized
    /\ \E target_ids \in TargetLists(editor_df) :
        lastOp' = [op |-> "call", fn |-> "spread_row", id |-> MissingId,
                   result |-> spread_row(editor_df, MissingId, target_ids)]
    /\ UNCHANGED <<df, editor_df, editor_initialized, uuidCount, ops, prev,
                   uploaded_file, tax_percent, html, workbook,
                   selected, pending_delete, spread_mode, spread_group>>

HelperSpec == Init /\ [][Next \/ CallWithMissingId \/ SpreadWithMissingId]_vars

(* C11: reorder_row, convert_type, delete_row and spread_row called with   *)
(* an id that is not in the store return a store equal to their input in   *)
(* every row and every field, _order included, whatever the store's        *)
(* current _order values are.                                              *)
C11_MissingIdIsNoOp ==
    lastOp.op = "call" => lastOp.result = editor_df

(* C12: in every reachable Row Store a row has a non-empty _parentId if    *)
(* and only if its type is "subitem": no Subitem is without a parent and   *)
(* no Item carries a _parentId.                                            *)
C12_ParentIffSubitem ==
    \A i \in 1..Len(editor_df) :
        editor_df[i]["_parentId"] # "" <=> editor_df[i]["type"] = "subitem"

(* C13: in every reachable Row Store two distinct Items of the same        *)
(* (code, Power Type) have different _order values, and so have two        *)
(* distinct Subitems of the same _parentId.                                *)
C13_SiblingOrdersDistinct ==
    \A i, j \in 1..Len(editor_df) :
        /\ i # j
        /\ \/ /\ editor_df[i]["type"] = "item"
              /\ editor_df[j]["type"] = "item"
              /\ ProductKey(editor_df[i]) = ProductKey(editor_df[j])
           \/ /\ editor_df[i]["type"] = "subitem"
              /\ editor_df[j]["type"] = "subitem"
              /\ editor_df[i]["_parentId"] # ""
              /\ editor_df[i]["_parentId"] = editor_df[j]["_parentId"]
        => editor_df[i]["_order"] # editor_df[j]["_order"]

(* C14: init_editor_structure gives every "subitem" row that follows an    *)
(* Item the _id of the nearest preceding Item as _parentId and the count   *)
(* of that Item's earlier subitems as _order; in Scenario A the Accessory  *)
(* gets the SupplierA item as parent and _order 0.                         *)
C14_BuilderAttachesSubitems ==
    lastOp.op = "init" =>
        \A i \in 1..Len(lastOp.src) :
            LET items == {j \in 1..(i - 1) : lastOp.src[j]["type"] = "item"} IN
            lastOp.src[i]["type"] = "subitem" /\ items # {} =>
                /\ editor_df[i]["_parentId"] = editor_df[Max(items)]["_id"]
                /\ editor_df[i]["_order"] = i - Max(items) - 1

(* C15: "Add Row" creates exactly one new row with a fresh _id and leaves  *)
(* the existing rows unchanged; a "subitem" with a parent gets that        *)
(* _parentId and the next child _order of the parent; in every other case  *)
(* the new row has empty _parentId, _order 0 and is a top-level Item.      *)
C15_AddRowInsertsOneRow ==
    lastOp.op = "add" =>
        LET new == editor_df[Len(editor_df)] IN
        /\ Len(editor_df) = Len(prev) + 1
        /\ \A i \in 1..Len(prev) : editor_df[i] = prev[i]
        /\ new["_id"] = lastOp.id
        /\ new["_id"] \notin Ids(prev)
        /\ IF lastOp.type = "subitem" /\ lastOp.parent # ""
           THEN /\ new["_parentId"] = lastOp.parent
                /\ new["_order"] = NextChildOrder(prev, lastOp.parent)
           ELSE /\ new["_parentId"] = ""
                /\ new["_order"] = 0
                /\ new["type"] = "item"

\* Lexicographic rank of the code and Power Type strings of the model.
CodeRank == ("-" :> 0) @@ ("C1" :> 1) @@ ("C2" :> 2)

PowerRank == ("-" :> 0) @@ ("PowerHigh" :> 1)

\* (code, Power Type, _order) of r is not after that of q.
ItemKeyLeq(r, q) ==
    LET a == <<CodeRank[r["code"]], PowerRank[r["Power Type"]], r["_order"]>>
        b == <<CodeRank[q["code"]], PowerRank[q["Power Type"]], q["_order"]>>
    IN  \/ a[1] < b[1]
        \/ a[1] = b[1] /\ a[2] < b[2]
        \/ a[1] = b[1] /\ a[2] = b[2] /\ a[3] <= b[3]

\* The rows the walk over Items and their Subitems reaches.
Reachable(e) ==
    {i \in 1..Len(e) :
        \/ e[i]["type"] = "item"
        \/ \E j \in 1..Len(e) : /\ e[j]["type"] = "item"
                                /\ e[j]["_id"] = e[i]["_parentId"]}

\* p lists the rows of e in the order: Items by (code, Power Type, _order),
\* each followed by its Subitems by _order, then the other rows in store order.
FlatOrder(e, p) ==
    LET n == Cardinality(Reachable(e))
        isItem(k) == e[p[k]]["type"] = "item"
    IN  /\ \A k \in 1..n : p[k] \in Reachable(e)
        /\ \A k, l \in 1..Len(e) :
            k < l =>
              /\ l <= n /\ isItem(k) /\ isItem(l) => ItemKeyLeq(e[p[k]], e[p[l]])
              /\ n < k => p[k] < p[l]
              /\ l <= n /\ ~isItem(k) /\ ~isItem(l)
                   /\ e[p[k]]["_parentId"] = e[p[l]]["_parentId"]
                   => e[p[k]]["_order"] <= e[p[l]]["_order"]
        /\ \A k \in 1..n :
            ~isItem(k) =>
              LET before == {j \in 1..(k - 1) : isItem(j)}
              IN  /\ before # {}
                  /\ e[p[Max(before)]]["_id"] = e[p[k]]["_parentId"]

(* C16: the flat table holds the Row Store's rows in the order: Items      *)
(* sorted by (code, Power Type, _order), each Item immediately followed by *)
(* its Subitems sorted by _order, then the unreachable rows in store       *)
(* order; it has no _id, _parentId or _order column.                       *)
C16_FlattenerOrder ==
    editor_initialized =>
        /\ Len(df) = Len(editor_df)
        /\ \A k \in 1..Len(df) : DOMAIN df[k] \cap {"_id", "_parentId", "_order"} = {}
        /\ \E p \in Permutations(1..Len(editor_df)) :
            /\ FlatOrder(editor_df, p)
            /\ \A k \in 1..Len(df) :
                SameFields(df[k], editor_df[p[k]], NamedCols \ EditorCols)

\* The price of the first row of g with this supplier and description, or 0.
FirstMatchPrice(g, s, desc) ==
    LET m == {i \in 1..Len(g) : g[i]["supplier"] = s /\ g[i]["description"] = desc}
    IN  IF m = {} THEN 0 ELSE g[Min(m)]["price"]

RECURSIVE SetSum(_, _)
SetSum(f, S) ==
    IF S = {} THEN 0
    ELSE LET x == CHOOSE y \in S : TRUE IN f[x] + SetSum(f, S \ {x})

(* C17: in every rendered group, for every supplier, the cell price of     *)
(* (supplier, description) is the price of the first matching group row    *)
(* or 0, the total is (sum of the supplier's cell prices over the distinct *)
(* descriptions) x (1 + tax/100), and the sheet's Total row has the same   *)
(* value as the preview; Scenario A at 10% tax has totals 132 and 99.      *)
C17_RenderedTotals ==
    /\ \A k \in 1..Len(html) :
        LET t == html[k]
            g == items_for_code(df, t.code, t.power_type)
        IN  \A s \in SeqToSet(t.suppliers) :
              /\ \A desc \in SeqToSet(t.descriptions) :
                    t.price[<<s, desc>>] = FirstMatchPrice(g, s, desc)
              /\ t.total[s] =
                    SetSum([desc \in SeqToSet(t.descriptions) |-> t.price[<<s, desc>>]],
                           SeqToSet(t.descriptions)) * (100 + tax_percent)
    /\ lastOp.op = "excel" =>
        /\ Len(workbook) = Len(html)
        /\ \A k \in 1..Len(html) : workbook[k].total = html[k].total
    /\ editor_initialized /\ df = ScenarioA /\ tax_percent = 10 =>
        /\ Len(html) = 1
        /\ html[1].total = ("SupplierA" :> 13200) @@ ("SupplierB" :> 9900)

(* C18: in every option block of the sheet the winner is the supplier     *)
(* whose Total row value is lowest, and among several with the lowest      *)
(* value the first in first-seen order, also when a supplier has several   *)
(* rows with the same description.                                         *)
C18_WinnerHasLowestTotal ==
    lastOp.op = "excel" =>
        \A k \in 1..Len(workbook) :
            LET b == workbook[k]
                lowest == {j \in 1..Len(b.suppliers) :
                             \A i \in 1..Len(b.suppliers) :
                                b.total[b.suppliers[j]] <= b.total[b.suppliers[i]]}
            IN  b.winner_supplier = b.suppliers[Min(lowest)]

-----------------------------------------------------------------------------
(* Loading source tables during a session *)

\* The tables the extraction service returns and the user uploads.
LoadTables == {ScenarioA, <<OtherItem>>}

\* A script run that starts from a newly stored flat table t with the editor
\* reset: the manual-upload block replaces t by the held file, the editor is
\* initialized, the store is flattened and the preview rendered.
Ingest(t, file) ==
    LET src == IF file = <<>> THEN t ELSE file IN
    /\ editor_df' = init_editor_structure(src, uuidCount)
    /\ editor_initialized' = TRUE
    /\ uuidCount' = uuidCount + Len(src)
    /\ Sync(editor_df')
    /\ html' = generate_html_table(df', tax_percent)
    /\ prev' = <<>>
    /\ ops' = ops + 1
    /\ UNCHANGED <<tax_percent, workbook>>

\* "Process PDFs" answered with status 200 and a table: the table is stored,
\* the editor reset, and st.rerun() starts the next run.
ProcessOk ==
    /\ ops < MaxOps
    /\ \E t \in LoadTables :
        /\ Ingest(t, uploaded_file)
        /\ lastOp' = [op |-> "process", src |-> t]
    /\ KeepUi
    /\ UNCHANGED uploaded_file

ProcessFailed_resetsFirst ==
    /\ editor_df' = <<>>
    /\ editor_initialized' = FALSE
    /\ lastOp' = [op |-> "failed", df |-> df, editor_df |-> editor_df,
                  editor_initialized |-> editor_initialized]
    /\ UNCHANGED <<df, uuidCount, ops, prev, uploaded_file, tax_percent,
                   html, workbook,
                   selected, pending_delete, spread_mode, spread_group>>

\* "Process PDFs" answered with another status, or requests.post raising on
\* the timeout: st.stop() or the exception ends the run before any write.
ProcessFailed ==
    /\ lastOp' = [op |-> "failed", df |-> df, editor_df |-> editor_df,
                  editor_initialized |-> editor_initialized]
    /\ UNCHANGED <<df, editor_df, editor_initialized, uuidCount, ops, prev,
                   uploaded_file, tax_percent, html, workbook,
                   selected, pending_delete, spread_mode, spread_group>>

\* A file put into the manual uploader: from this run on the widget holds it.
ManualUpload ==
    /\ ops < MaxOps
    /\ \E t \in LoadTables :
        /\ uploaded_file' = t
        /\ Ingest(t, t)
        /\ lastOp' = [op |-> "upload", src |-> t]
    /\ pending_delete' = ""
    /\ spread_mode' = ""
    /\ selected' \in SelAfter(editor_df')
    /\ UNCHANGED spread_group

\* The file removed from the manual uploader: the run skips the upload block
\* and leaves the initialized editor as it is.
ClearUpload ==
    /\ uploaded_file # <<>>
    /\ uploaded_file' = <<>>
    /\ lastOp' = [op |-> "clear"]
    /\ UNCHANGED <<df, editor_df, editor_initialized, uuidCount, ops, prev,
                   tax_percent, html, workbook,
                   selected, pending_delete, spread_mode, spread_group>>

\* A session that starts on a loaded table and loads further ones.
InitSession == Loaded(LoadTables)

SessionSpec ==
    InitSession
        /\ [][Next \/ ProcessOk \/ ProcessFailed \/ ManualUpload \/ ClearUpload]_vars

(* C19: after a failed extraction call (non-success status or timeout)     *)
(* the flat table, the Row Store and editor_initialized are exactly what   *)
(* they were before the Process-PDFs action.                               *)
C19_FailedExtractionKeepsState ==
    lastOp.op = "failed" =>
        /\ df = lastOp.df
        /\ editor_df = lastOp.editor_df
        /\ editor_initialized = lastOp.editor_initialized

\* A failed extraction call on a store that edits have changed.
C19_Witness ==
    /\ lastOp.op = "failed"
    /\ ops > 0
    /\ editor_initialized
    /\ editor_df # init_editor_structure(df, 0)

(* C20: the Row Store the next action works on is the result of the last   *)
(* mutation: after reorder, convert, delete, spread or Add Row it is that  *)
(* operation applied to the store the handler received, not a store        *)
(* rebuilt from a source table.                                            *)
C20_EditsSurviveRerun ==
    /\ lastOp.op = "reorder" => Seen = reorder_row(prev, lastOp.id, lastOp.direction)
    /\ lastOp.op = "convert" => Seen = convert_type(prev, lastOp.id)
    /\ lastOp.op = "delete" => Seen = delete_row(prev, lastOp.id)
    /\ lastOp.op = "spread" => Seen = spread_row(prev, lastOp.id, lastOp.targets)
    /\ lastOp.op = "add" =>
        /\ Len(Seen) = Len(prev) + 1
        /\ \A i \in 1..Len(prev) : Seen[i] = prev[i]
        /\ Seen[Len(Seen)]["_id"] = lastOp.id

-----------------------------------------------------------------------------
(* The editor's buttons one click at a time: the selection in the grid,    *)
(* "Delete" with its confirmation and "Spread" with its panel.  The model  *)
(* follows one selection, that of the grid whose buttons are pressed; a    *)
(* click in another grid is a change of the selection.                     *)

product_groups(d) == {d[i]["_group"] : i \in ItemIdx(d)}

\* The groups whose grid shows the row row_id (group_rows).
GridsOf(d, row_id) ==
    {g \in product_groups(d) :
        \E i \in Idx(d, row_id) :
            \/ d[i]["_group"] = g
            \/ \E k \in ItemIdx(d) : /\ d[k]["_group"] = g
                                     /\ d[i]["_parentId"] = d[k]["_id"]}

\* The group_key of the grid that reports the selection: a grid showing the
\* row, or, for a row no grid shows any more, any grid.
GridOfSelection(d) ==
    IF GridsOf(d, selected) # {} THEN GridsOf(d, selected) ELSE product_groups(d)

\* A run without st.rerun() rebuilds the store while the uploader holds a
\* file; such runs are counted like the handlers that change the store.
RunAllowed == uploaded_file = <<>> \/ ops < MaxOps

CountRun == ops' = IF uploaded_file = <<>> THEN ops ELSE ops + 1

\* A script run that ends without st.rerun(): the store is the one the run
\* worked on.
SingleRun ==
    /\ editor_df' = Seen
    /\ uuidCount' = SeenCount
    /\ editor_initialized' = TRUE
    /\ Sync(editor_df')
    /\ html' = generate_html_table(df', tax_percent)
    /\ UNCHANGED <<uploaded_file, tax_percent>>

\* A click on a row of a grid, or the removal of the selection.
SelectRow ==
    /\ editor_initialized
    /\ RunAllowed
    /\ \E id \in (Selectable(editor_df) \cup {""}) \ {selected} :
        /\ SingleRun
        /\ selected' \in IF id \in Ids(editor_df') THEN {id} ELSE {id, ""}
        /\ lastOp' = [op |-> "select"]
    /\ pending_delete' = AfterUploadBlock(pending_delete)
    /\ spread_mode' = AfterUploadBlock(spread_mode)
    /\ prev' = Seen
    /\ CountRun
    /\ UNCHANGED <<workbook, spread_group>>

UpDownButton ==
    /\ editor_initialized
    /\ ops < MaxOps
    /\ selected # ""
    /\ GridOfSelection(Seen) # {}
    /\ \E direction \in {"up", "down"} :
        /\ Run(reorder_row(Seen, selected, direction), SeenCount, tax_percent)
        /\ lastOp' = [op |-> "up_down"]
    /\ KeepUi
    /\ prev' = Seen
    /\ ops' = ops + 1
    /\ UNCHANGED workbook

ConvertButton ==
    /\ editor_initialized
    /\ ops < MaxOps
    /\ selected # ""
    /\ GridOfSelection(Seen) # {}
    /\ Run(convert_type(Seen, selected), SeenCount, tax_percent)
    /\ lastOp' = [op |-> "convert_button"]
    /\ KeepUi
    /\ prev' = Seen
    /\ ops' = ops + 1
    /\ UNCHANGED workbook

\* "Spread": stores the selection and the grid's group; no st.rerun().
SpreadButton ==
    /\ editor_initialized
    /\ RunAllowed
    /\ selected # ""
    /\ \E group_key \in GridOfSelection(Seen) : spread_group' = group_key
    /\ SingleRun
    /\ spread_mode' = selected
    /\ pending_delete' = AfterUploadBlock(pending_delete)
    /\ selected' \in SelAfter(editor_df')
    /\ lastOp' = [op |-> "spread_button"]
    /\ prev' = Seen
    /\ CountRun
    /\ UNCHANGED workbook

\* "Delete": stores the selection in pending_delete; no st.rerun().
DeleteButton ==
    /\ editor_initialized
    /\ RunAllowed
    /\ selected # ""
    /\ GridOfSelection(Seen) # {}
    /\ SingleRun
    /\ pending_delete' = selected
    /\ spread_mode' = AfterUploadBlock(spread_mode)
    /\ selected' \in SelAfter(editor_df')
    /\ lastOp' = [op |-> "delete_button"]
    /\ prev' = Seen
    /\ CountRun
    /\ UNCHANGED <<workbook, spread_group>>

\* The confirmation is rendered: pending_delete is set, equals sel_id, and
\* the store the run works on has the row.
ConfirmationShown ==
    /\ AfterUploadBlock(pending_delete) # ""
    /\ AfterUploadBlock(pending_delete) = selected
    /\ selected \in Ids(Seen)
    /\ GridOfSelection(Seen) # {}

ConfirmDeleteButton ==
    /\ editor_initialized
    /\ ops < MaxOps
    /\ ConfirmationShown
    /\ Run(delete_row(Seen, selected), SeenCount, tax_percent)
    /\ pending_delete' = ""
    /\ spread_mode' = AfterUploadBlock(spread_mode)
    /\ selected' \in SelAfter(editor_df')
    /\ lastOp' = [op |-> "confirm_delete"]
    /\ prev' = Seen
    /\ ops' = ops + 1
    /\ UNCHANGED <<workbook, spread_group>>

CancelDeleteButton ==
    /\ editor_initialized
    /\ RunAllowed
    /\ ConfirmationShown
    /\ Run(Seen, SeenCount, tax_percent)
    /\ pending_delete' = ""
    /\ spread_mode' = AfterUploadBlock(spread_mode)
    /\ selected' \in SelAfter(editor_df')
    /\ lastOp' = [op |-> "cancel_delete"]
    /\ prev' = Seen
    /\ CountRun
    /\ UNCHANGED <<workbook, spread_group>>

\* The spread panel is rendered in the loop pass of the stored group.
SpreadPanelShown ==
    /\ AfterUploadBlock(spread_mode) # ""
    /\ spread_group \in product_groups(Seen)

\* "Spread Now" with at least one target picked ("if targets:"): the copy,
\* the success message, and st.rerun().
SpreadNowButton ==
    /\ editor_initialized
    /\ ops < MaxOps
    /\ SpreadPanelShown
    /\ \E target_ids \in TargetLists(Seen) :
        /\ Run(spread_row(Seen, spread_mode, target_ids), SeenCount, tax_percent)
        /\ lastOp' = [op |-> "spread_now", id |-> spread_mode]
    /\ spread_mode' = ""
    /\ pending_delete' = AfterUploadBlock(pending_delete)
    /\ selected' \in SelAfter(editor_df')
    /\ prev' = Seen
    /\ ops' = ops + 1
    /\ UNCHANGED <<workbook, spread_group>>

CancelSpreadButton ==
    /\ editor_initialized
    /\ RunAllowed
    /\ SpreadPanelShown
    /\ Run(Seen, SeenCount, tax_percent)
    /\ spread_mode' = ""
    /\ pending_delete' = AfterUploadBlock(pending_delete)
    /\ selected' \in SelAfter(editor_df')
    /\ lastOp' = [op |-> "cancel_spread"]
    /\ prev' = Seen
    /\ CountRun
    /\ UNCHANGED <<workbook, spread_group>>

EditorNext ==
    \/ InitEditor
    \/ SelectRow
    \/ UpDownButton
    \/ ConvertButton
    \/ SpreadButton
    \/ DeleteButton
    \/ ConfirmDeleteButton
    \/ CancelDeleteButton
    \/ SpreadNowButton
    \/ CancelSpreadButton
    \/ ProcessOk
    \/ ManualUpload
    \/ ClearUpload

EditorSpec == InitSession /\ [][EditorNext]_vars

(* C21: a row leaves the Row Store only through "Confirm Delete" (or when  *)
(* a newly loaded table replaces the store); "Confirm Delete" acts only    *)
(* while pending_delete is the id of the selected row; pressing "Delete",  *)
(* pressing "Cancel" or changing the selection leaves the Row Store as it  *)
(* was; after "Confirm Delete" or "Cancel" pending_delete is None.         *)
C21_OnlyConfirmDeleteRemovesRows ==
    [][ /\ SelectRow \/ DeleteButton \/ CancelDeleteButton => editor_df' = editor_df
        /\ ConfirmDeleteButton \/ CancelDeleteButton => pending_delete' = ""
        /\ ConfirmDeleteButton => pending_delete # "" /\ pending_delete = selected
        /\ (\E id \in Ids(editor_df) : id \notin Ids(editor_df'))
              => ConfirmDeleteButton \/ ProcessOk \/ ManualUpload ]_vars

(* C22: in every reachable session state pending_delete is None or the     *)
(* _id of a row of the Row Store, and spread_mode is False or the _id of a *)
(* row of the Row Store; a "Spread Now" that reported success had its      *)
(* source row in the store it worked on.                                   *)
C22_NoStaleReference ==
    /\ pending_delete = "" \/ pending_delete \in Ids(editor_df)
    /\ spread_mode = "" \/ spread_mode \in Ids(editor_df)
    /\ lastOp.op = "spread_now" => lastOp.id \in Ids(prev)

====
